---------------------------- MODULE Spec2Model ----------------------------
(* A model of featureselected: compute_common_features.py (feature loader,  *)
(* normalizer, set intersector, aggregation driver) and generate_site.py    *)
(* (report tool entry point and the tab script of the rendered page).       *)
(* A string is a sequence of one-character strings; a text file is the      *)
(* sequence of its characters, "\n" being the line terminator.              *)
EXTENDS Integers, Sequences, FiniteSets, TLC

VARIABLES
    \* ---- set intersector harness (intersect_many on drawn inputs)
    i_sets, i_perm, i_res, i_res_perm, i_pc,
    \* ---- normalizer harness (normalize_items on drawn inputs)
    n_items, n_lower, n_strip, n_once, n_twice, n_pc,
    \* ---- one run of a command-line tool
    tool,                 \* "aggregate" (compute_common_features.py) or "report" (generate_site.py)
    base_exists,          \* whether args.base_dir exists
    normalize_case,       \* args.normalize_case
    strip_punct,          \* args.strip_punct
    pc,                   \* position of main
    gi, si, mi,           \* positions of the loops over GROUPS, SCENARIOS, MODELS (from 1)
    read_files,           \* the source files met in the current scenario pass
    model_sets,           \* main: model_sets
    missing_models,       \* main: missing_models
    per_scenario_common,  \* main: per_scenario_common, a dict in insertion order
    outfiles,             \* the files under args.out_dir: path -> characters
    outdirs,              \* the directories created under args.out_dir
    site_out,             \* whether args.out (index.html) has been written
    loads,                \* calls of load_features / read_features so far
    printed,              \* blocks of consecutive print calls run so far (a block's
                          \* warning and example lines come only with the block)
    exit_status,          \* the process's exit status, -1 while it runs
    stderr,               \* what the interpreter wrote to standard error
    \* ---- round-trip harness (write_list, then load_features on its output)
    rt_text, rt_lower, rt_strip, rt_set, rt_file, rt_back, rt_pc,
    \* ---- the rendered page in a browser
    loaded,               \* whether the page script has run on the current document
    group_links,          \* indices of the .group-link buttons with class "active"
    group_panels,         \* indices of the .group-panel sections with class "active"
    scen_links,           \* per group, indices of its .scenario-link buttons with class "active"
    scen_panels,          \* per group, indices of its .scenario-panel sections with class "active"
    storage               \* localStorage: key -> stored string

isectVars == <<i_sets, i_perm, i_res, i_res_perm, i_pc>>
normVars  == <<n_items, n_lower, n_strip, n_once, n_twice, n_pc>>
runVars   == <<tool, base_exists, normalize_case, strip_punct, pc, gi, si, mi,
               read_files, model_sets, missing_models, per_scenario_common,
               outfiles, outdirs, site_out, loads, printed, exit_status,
               stderr>>
rtVars    == <<rt_text, rt_lower, rt_strip, rt_set, rt_file, rt_back, rt_pc>>
siteVars  == <<loaded, group_links, group_panels, scen_links, scen_panels, storage>>
vars == <<isectVars, normVars, runVars, rtVars, siteVars>>

-----------------------------------------------------------------------------
(* Bounds of the model.                                                     *)

\* longest collection of sets handed to intersect_many by the harness
MaxSets == 3
\* longest source text of the round-trip harness, in characters
MaxText == 4
\* longest string handed to normalize_items by the harness
MaxLen == 3
\* longest sequence of strings handed to normalize_items by the harness
MaxItems == 1

-----------------------------------------------------------------------------
(* Characters and strings.                                                  *)

\* Unicode code point of the characters the model uses (Python compares
\* str values code point by code point).
Code(c) ==
    CASE c = "\n" -> 10
      [] c = " "  -> 32
      [] c = "-"  -> 45
      [] c = "A"  -> 65
      [] c = "B"  -> 66
      [] c = "C"  -> 67
      [] c = "a"  -> 97
      [] c = "b"  -> 98
      [] c = "c"  -> 99

\* str.strip() with no argument removes whitespace
Whitespace == {" ", "\n"}

\* the characters deleted by str.maketrans("", "", ".,;:!?-")
Punct == {".", ",", ";", ":", "!", "?", "-"}

\* str.lower() on one character
LowerChar(c) ==
    CASE c = "A" -> "a"
      [] c = "B" -> "b"
      [] c = "C" -> "c"
      [] OTHER   -> c

RECURSIVE LStrip(_)
LStrip(y) ==
    IF y # <<>> /\ Head(y) \in Whitespace THEN LStrip(Tail(y)) ELSE y

RECURSIVE RStrip(_)
RStrip(y) ==
    IF y # <<>> /\ y[Len(y)] \in Whitespace
    THEN RStrip(SubSeq(y, 1, Len(y) - 1))
    ELSE y

\* str.strip()
Strip(y) == RStrip(LStrip(y))

\* y.translate(table): the punctuation characters are deleted
Translate(y) == SelectSeq(y, LAMBDA c : c \notin Punct)

\* y.lower()
Lower(y) == [k \in 1..Len(y) |-> LowerChar(y[k])]

\* x < y on Python str: lexicographic by code point, a proper prefix first
RECURSIVE StrLess(_, _)
StrLess(x, y) ==
    IF y = <<>> THEN FALSE
    ELSE IF x = <<>> THEN TRUE
    ELSE IF Head(x) # Head(y) THEN Code(Head(x)) < Code(Head(y))
    ELSE StrLess(Tail(x), Tail(y))

\* set(seq)
ToSet(seq) == {seq[k] : k \in 1..Len(seq)}

-----------------------------------------------------------------------------
(* normalize_items                                                          *)

\* a slip: the value is trimmed before the punctuation is deleted
NormalizeOneTrimFirst(x, lower, strip) ==
    LET y0 == Strip(x)
        y1 == IF strip THEN Translate(y0) ELSE y0
    IN  IF lower THEN Lower(y1) ELSE y1

\* the loop body of normalize_items: translate, lower, strip
NormalizeOne(x, lower, strip) ==
    LET y1 == IF strip THEN Translate(x) ELSE x
        y2 == IF lower THEN Lower(y1) ELSE y1
    IN  Strip(y2)

RECURSIVE NormalizeLoop(_, _, _)
NormalizeLoop(items, lower, strip) ==
    IF items = <<>> THEN <<>>
    ELSE LET y == NormalizeOne(Head(items), lower, strip)
             rest == NormalizeLoop(Tail(items), lower, strip)
         IN  IF y # <<>> THEN <<y>> \o rest ELSE rest

normalize_items(items, lower, strip) ==
    IF ~lower /\ ~strip THEN items
    ELSE NormalizeLoop(items, lower, strip)

-----------------------------------------------------------------------------
(* intersect_many                                                           *)

\* a slip: the loop stops as soon as the accumulator is NOT empty
BreakWhenNonEmpty(acc) == acc # {}

\* the early exit: "if not acc: break"
BreakWhen(acc) == acc = {}

\* the for loop of intersect_many from position k on
RECURSIVE IntersectLoop(_, _, _)
IntersectLoop(acc, sets, k) ==
    IF k > Len(sets) THEN acc
    ELSE LET a == acc \cap sets[k]
         IN  IF BreakWhen(a) THEN a ELSE IntersectLoop(a, sets, k + 1)

\* a slip: the loop resumes one element too far, so the second set is skipped
intersect_many_skip(sets) ==
    IF Len(sets) = 0 THEN {} ELSE IntersectLoop(sets[1], sets, 3)

intersect_many(sets) ==
    IF Len(sets) = 0 THEN {} ELSE IntersectLoop(sets[1], sets, 2)

-----------------------------------------------------------------------------
(* load_features and write_list. A source file is [exists, text].           *)

\* "for line in f": the lines of a text, each with its terminator, the last
\* one possibly without
RECURSIVE FileLines(_, _)
FileLines(text, cur) ==
    IF text = <<>> THEN (IF cur = <<>> THEN <<>> ELSE <<cur>>)
    ELSE IF Head(text) = "\n"
         THEN <<Append(cur, "\n")>> \o FileLines(Tail(text), <<>>)
         ELSE FileLines(Tail(text), Append(cur, Head(text)))

\* the loop of load_features: strip each line, keep the non-empty ones
RECURSIVE KeepStripped(_)
KeepStripped(lines) ==
    IF lines = <<>> THEN <<>>
    ELSE LET s == Strip(Head(lines))
         IN  IF s # <<>> THEN <<s>> \o KeepStripped(Tail(lines))
             ELSE KeepStripped(Tail(lines))

\* a slip: no existence test, so opening a missing file raises
load_features_unguarded(file) ==
    IF ~file.exists THEN [raised |-> TRUE, value |-> <<>>]
    ELSE [raised |-> FALSE, value |-> KeepStripped(FileLines(file.text, <<>>))]

\* load_features: [raised, value]
load_features(file) ==
    IF ~file.exists THEN [raised |-> FALSE, value |-> <<>>]
    ELSE [raised |-> FALSE, value |-> KeepStripped(FileLines(file.text, <<>>))]

\* a slip: the names are written in descending order
RECURSIVE SortedDescending(_)
SortedDescending(S) ==
    IF S = {} THEN <<>>
    ELSE LET hi == CHOOSE x \in S : \A y \in S \ {x} : StrLess(y, x)
         IN  <<hi>> \o SortedDescending(S \ {hi})

\* sorted(items) on a set of str
RECURSIVE Sorted(_)
Sorted(S) ==
    IF S = {} THEN <<>>
    ELSE LET lo == CHOOSE x \in S : \A y \in S \ {x} : StrLess(x, y)
         IN  <<lo>> \o Sorted(S \ {lo})

\* a slip: the line terminator is left out
WriteLineBare(x) == x

\* f.write(f"{x}\n")
WriteLine(x) == x \o <<"\n">>

RECURSIVE WriteAll(_)
WriteAll(seq) ==
    IF seq = <<>> THEN <<>> ELSE WriteLine(Head(seq)) \o WriteAll(Tail(seq))

\* the characters write_list leaves in the file
write_list(items) == WriteAll(Sorted(items))

\* a slip: the accumulator is the caller's first set itself, so "acc &= s"
\* changes it
ArgsAfterIntersectAliased(sets) ==
    IF Len(sets) = 0 THEN sets ELSE [sets EXCEPT ![1] = intersect_many(sets)]

\* the caller's sets after intersect_many returns: the accumulator is a fresh
\* set(next(it)), so they are as before
ArgsAfterIntersect(sets) == sets

-----------------------------------------------------------------------------
(* Idle values: a harness that is not running holds these.                  *)

IsectIdle ==
    /\ i_sets = <<>> /\ i_perm = <<>> /\ i_res = {} /\ i_res_perm = {}
    /\ i_pc = "idle"

NormIdle ==
    /\ n_items = <<>> /\ n_lower = FALSE /\ n_strip = FALSE
    /\ n_once = <<>> /\ n_twice = <<>> /\ n_pc = "idle"

RunIdle ==
    /\ tool = "none" /\ base_exists = FALSE
    /\ normalize_case = FALSE /\ strip_punct = FALSE
    /\ pc = "idle" /\ gi = 0 /\ si = 0 /\ mi = 0
    /\ read_files = <<>> /\ model_sets = <<>> /\ missing_models = <<>>
    /\ per_scenario_common = <<>>
    /\ outfiles = <<>> /\ outdirs = {} /\ site_out = FALSE
    /\ loads = 0 /\ printed = 0 /\ exit_status = -1 /\ stderr = ""

RtIdle ==
    /\ rt_text = <<>> /\ rt_lower = FALSE /\ rt_strip = FALSE
    /\ rt_set = {} /\ rt_file = <<>> /\ rt_back = <<>> /\ rt_pc = "idle"

SiteIdle ==
    /\ loaded = FALSE /\ group_links = {} /\ group_panels = {}
    /\ scen_links = <<>> /\ scen_panels = <<>> /\ storage = <<>>

\* all sequences over S of length at most n
SeqUpTo(S, n) == UNION {[1..k -> S] : k \in 0..n}

-----------------------------------------------------------------------------
(* Specification SpecIntersect: intersect_many applied to every collection  *)
(* of at most MaxSets sets of feature names, then to a permutation of it.   *)

Names == {<<"A">>, <<"B">>, <<"C">>}

InitIntersect ==
    /\ i_sets \in SeqUpTo(SUBSET Names, MaxSets)
    /\ i_perm = <<>> /\ i_res = {} /\ i_res_perm = {}
    /\ i_pc = "input"
    /\ NormIdle /\ RunIdle /\ RtIdle /\ SiteIdle

\* result = intersect_many(sets)
Intersect ==
    /\ i_pc = "input"
    /\ i_res' = intersect_many(i_sets)
    /\ i_pc' = "done"
    /\ UNCHANGED <<i_sets, i_perm, i_res_perm>>
    /\ UNCHANGED <<normVars, runVars, rtVars, siteVars>>

\* the same collection supplied in another order
IntersectPermuted ==
    /\ i_pc = "done"
    /\ \E p \in Permutations(1..Len(i_sets)) :
          /\ i_perm' = [k \in 1..Len(i_sets) |-> i_sets[p[k]]]
          /\ i_res_perm' = intersect_many(i_perm')
    /\ i_pc' = "permuted"
    /\ UNCHANGED <<i_sets, i_res>>
    /\ UNCHANGED <<normVars, runVars, rtVars, siteVars>>

NextIntersect == Intersect \/ IntersectPermuted

SpecIntersect == InitIntersect /\ [][NextIntersect]_vars

-----------------------------------------------------------------------------
(* Specification SpecNormalize: normalize_items applied once and twice to   *)
(* every sequence of at most MaxItems strings of at most MaxLen characters. *)

NormAlphabet == {"A", "-", " "}

InitNormalize ==
    /\ n_items \in SeqUpTo(SeqUpTo(NormAlphabet, MaxLen), MaxItems)
    /\ n_lower \in BOOLEAN
    /\ n_strip \in BOOLEAN
    /\ n_once = <<>> /\ n_twice = <<>>
    /\ n_pc = "input"
    /\ IsectIdle /\ RunIdle /\ RtIdle /\ SiteIdle

NormalizeOnce ==
    /\ n_pc = "input"
    /\ n_once' = normalize_items(n_items, n_lower, n_strip)
    /\ n_pc' = "once"
    /\ UNCHANGED <<n_items, n_lower, n_strip, n_twice>>
    /\ UNCHANGED <<isectVars, runVars, rtVars, siteVars>>

NormalizeTwice ==
    /\ n_pc = "once"
    /\ n_twice' = normalize_items(n_once, n_lower, n_strip)
    /\ n_pc' = "twice"
    /\ UNCHANGED <<n_items, n_lower, n_strip, n_once>>
    /\ UNCHANGED <<isectVars, runVars, rtVars, siteVars>>

NextNormalize == NormalizeOnce \/ NormalizeTwice

SpecNormalize == InitNormalize /\ [][NextNormalize]_vars

-----------------------------------------------------------------------------
(* Specification SpecRun: one run of the aggregation tool (main of          *)
(* compute_common_features.py, one action per stretch of its loops) or of   *)
(* the report tool (main of generate_site.py). The content of each source   *)
(* file is drawn when main reaches it.                                      *)

GROUPS == <<"All Groups", "Pathologic And Control">>

SCENARIOS == <<"Normal only", "Normal New only", "Merged Normal">>

MODELS == <<"Logistic Regression", "MLP", "Support Vector Machine",
            "Random Forest", "XGBoost">>

\* a source file that does not exist (or whose folder does not)
MissingFile == [exists |-> FALSE, text |-> <<>>]

\* "C\nB\n"
FileOne == [exists |-> TRUE, text |-> <<"C", "\n", "B", "\n">>]

\* "b-\n\n c- \nA": punctuation, a blank line, surrounding blanks, no final
\* line terminator
FileTwo == [exists |-> TRUE,
            text |-> <<"b", "-", "\n", "\n", " ", "c", "-", " ", "\n", "A">>]

\* what base / g_folder / s_folder / model / "selected_features.txt" may be
SourceFiles == {"missing", "one", "two"}

\* the file a source name stands for
SourceFile(name) ==
    CASE name = "missing" -> MissingFile
      [] name = "one"     -> FileOne
      [] name = "two"     -> FileTwo

\* args.out_dir / g_folder / f"common_{s_folder}.txt"
ScenarioPath(g_folder, s_folder) == <<g_folder, "common_" \o s_folder \o ".txt">>

\* args.out_dir / g_folder / "common_across_all_scenarios.txt"
AcrossPath(g_folder) == <<g_folder, "common_across_all_scenarios.txt">>

\* path.open("w") ... write: the file is created or replaced
FileWrite(fs, path, text) ==
    [q \in (DOMAIN fs) \cup {path} |-> IF q = path THEN text ELSE fs[q]]

\* d[k] = v on a dict (insertion-ordered)
DictSet(d, k, v) ==
    IF \E j \in 1..Len(d) : d[j].key = k
    THEN [j \in 1..Len(d) |-> IF d[j].key = k THEN [key |-> k, value |-> v] ELSE d[j]]
    ELSE Append(d, [key |-> k, value |-> v])

\* d.values()
DictValues(d) == [j \in 1..Len(d) |-> d[j].value]

\* the dict whose value objects have become vs
DictWithValues(d, vs) == [j \in 1..Len(d) |-> [key |-> d[j].key, value |-> vs[j]]]

\* a slip: the existence test is left out
AggBaseMissingUnchecked(exists) == FALSE

\* compute_common_features.py: "if not base.exists()"
AggBaseMissing(exists) == ~exists

\* generate_site.py: "if not base_dir.exists()"
SiteBaseMissing(exists) == ~exists

InitRun ==
    /\ tool \in {"aggregate", "report"}
    /\ base_exists \in BOOLEAN
    /\ normalize_case \in (IF tool = "aggregate" THEN BOOLEAN ELSE {FALSE})
    /\ strip_punct \in (IF tool = "aggregate" THEN BOOLEAN ELSE {FALSE})
    /\ pc = "start" /\ gi = 0 /\ si = 0 /\ mi = 0
    /\ read_files = <<>> /\ model_sets = <<>> /\ missing_models = <<>>
    /\ per_scenario_common = <<>>
    /\ outfiles = <<>> /\ outdirs = {} /\ site_out = FALSE
    /\ loads = 0 /\ printed = 0 /\ exit_status = -1 /\ stderr = ""
    /\ IsectIdle /\ NormIdle /\ RtIdle /\ SiteIdle

\* main up to the loop over GROUPS: the base directory test and the header
AggStart ==
    /\ tool = "aggregate" /\ pc = "start"
    /\ IF AggBaseMissing(base_exists)
       THEN /\ pc' = "exited" /\ exit_status' = 1
            /\ stderr' = "Cartella non trovata"
            /\ UNCHANGED <<gi, printed>>
       ELSE /\ printed' = printed + 1
            /\ gi' = 1 /\ pc' = "group"
            /\ UNCHANGED <<exit_status, stderr>>
    /\ UNCHANGED <<tool, base_exists, normalize_case, strip_punct, si, mi,
                   read_files, model_sets, missing_models, per_scenario_common,
                   outfiles, outdirs, site_out, loads>>
    /\ UNCHANGED <<isectVars, normVars, rtVars, siteVars>>

\* the head of one pass of "for g_folder, g_label in GROUPS"
BeginGroup ==
    /\ tool = "aggregate" /\ pc = "group" /\ gi <= Len(GROUPS)
    /\ printed' = printed + 1
    /\ per_scenario_common' = <<>>
    /\ si' = 1 /\ pc' = "scenario"
    /\ UNCHANGED <<tool, base_exists, normalize_case, strip_punct, gi, mi,
                   read_files, model_sets, missing_models,
                   outfiles, outdirs, site_out, loads, exit_status, stderr>>
    /\ UNCHANGED <<isectVars, normVars, rtVars, siteVars>>

\* the head of one pass of "for s_folder, s_label in SCENARIOS"
BeginScenario ==
    /\ tool = "aggregate" /\ pc = "scenario" /\ si <= Len(SCENARIOS)
    /\ model_sets' = <<>> /\ missing_models' = <<>> /\ read_files' = <<>>
    /\ mi' = 1 /\ pc' = "model"
    /\ UNCHANGED <<tool, base_exists, normalize_case, strip_punct, gi, si,
                   per_scenario_common, outfiles, outdirs, site_out,
                   loads, printed, exit_status, stderr>>
    /\ UNCHANGED <<isectVars, normVars, rtVars, siteVars>>

\* one pass of "for model in MODELS": load, normalize, collect; the file
\* met at the model's path is one of Found
LoadModelFrom(Found) ==
    /\ tool = "aggregate" /\ pc = "model" /\ mi <= Len(MODELS)
    /\ \E src \in Found :
         LET txt == SourceFile(src)
             feats == load_features(txt)
         IN  /\ read_files' = Append(read_files, src)
             /\ loads' = loads + 1
             /\ IF feats.raised
                THEN \* the exception ends the process
                     /\ pc' = "exited" /\ exit_status' = 1
                     /\ stderr' = "Traceback"
                     /\ UNCHANGED <<model_sets, missing_models, mi>>
                ELSE /\ model_sets' =
                            Append(model_sets,
                                   ToSet(normalize_items(feats.value, normalize_case,
                                                         strip_punct)))
                     /\ missing_models' =
                            IF ~txt.exists THEN Append(missing_models, MODELS[mi])
                            ELSE missing_models
                     /\ mi' = mi + 1
                     /\ UNCHANGED <<pc, exit_status, stderr>>
    /\ UNCHANGED <<tool, base_exists, normalize_case, strip_punct, gi, si,
                   per_scenario_common, outfiles, outdirs, site_out, printed>>
    /\ UNCHANGED <<isectVars, normVars, rtVars, siteVars>>

\* the rest of the scenario pass: intersect the model sets, record and write
\* the scenario's common set, report
FinishScenario ==
    /\ tool = "aggregate" /\ pc = "model" /\ mi > Len(MODELS)
    /\ LET common_in_scenario == intersect_many(model_sets)
       IN  /\ model_sets' = ArgsAfterIntersect(model_sets)
           /\ per_scenario_common' =
                  DictSet(per_scenario_common, SCENARIOS[si], common_in_scenario)
           /\ outdirs' = outdirs \cup {GROUPS[gi]}
           /\ outfiles' = FileWrite(outfiles, ScenarioPath(GROUPS[gi], SCENARIOS[si]),
                                    write_list(common_in_scenario))
           /\ printed' = printed + 1
    /\ si' = si + 1 /\ pc' = "scenario"
    /\ UNCHANGED <<tool, base_exists, normalize_case, strip_punct, gi, mi,
                   read_files, missing_models, site_out, loads, exit_status, stderr>>
    /\ UNCHANGED <<isectVars, normVars, rtVars, siteVars>>

\* the rest of the group pass: intersect the scenario-level sets, write, report
FinishGroup ==
    /\ tool = "aggregate" /\ pc = "scenario" /\ si > Len(SCENARIOS)
    /\ LET across == intersect_many(DictValues(per_scenario_common))
       IN  /\ per_scenario_common' =
                  DictWithValues(per_scenario_common,
                                 ArgsAfterIntersect(DictValues(per_scenario_common)))
           /\ outdirs' = outdirs \cup {GROUPS[gi]}
           /\ outfiles' = FileWrite(outfiles, AcrossPath(GROUPS[gi]), write_list(across))
           /\ printed' = printed + 1
    /\ gi' = gi + 1 /\ pc' = "group"
    /\ UNCHANGED <<tool, base_exists, normalize_case, strip_punct, si, mi,
                   read_files, model_sets, missing_models, site_out,
                   loads, exit_status, stderr>>
    /\ UNCHANGED <<isectVars, normVars, rtVars, siteVars>>

\* after the loop over GROUPS: the closing line, and main returns
AggFinish ==
    /\ tool = "aggregate" /\ pc = "group" /\ gi > Len(GROUPS)
    /\ printed' = printed + 1
    /\ exit_status' = 0 /\ pc' = "exited"
    /\ UNCHANGED <<tool, base_exists, normalize_case, strip_punct, gi, si, mi,
                   read_files, model_sets, missing_models, per_scenario_common,
                   outfiles, outdirs, site_out, loads, stderr>>
    /\ UNCHANGED <<isectVars, normVars, rtVars, siteVars>>

\* main of generate_site.py: the base directory test, then every source file
\* is read, the page is built and written, and one line is printed
ReportMain ==
    /\ tool = "report" /\ pc = "start"
    /\ IF SiteBaseMissing(base_exists)
       THEN /\ exit_status' = 1 /\ stderr' = "Cartella non trovata"
            /\ UNCHANGED <<loads, site_out, printed>>
       ELSE /\ loads' = Len(GROUPS) * Len(SCENARIOS) * Len(MODELS)
            /\ site_out' = TRUE
            /\ printed' = printed + 1
            /\ exit_status' = 0
            /\ UNCHANGED stderr
    /\ pc' = "exited"
    /\ UNCHANGED <<tool, base_exists, normalize_case, strip_punct, gi, si, mi,
                   read_files, model_sets, missing_models, per_scenario_common,
                   outfiles, outdirs>>
    /\ UNCHANGED <<isectVars, normVars, rtVars, siteVars>>

LoadModel == LoadModelFrom(SourceFiles)

NextRun ==
    \/ AggStart \/ BeginGroup \/ BeginScenario \/ LoadModel
    \/ FinishScenario \/ FinishGroup \/ AggFinish \/ ReportMain

SpecRun == InitRun /\ [][NextRun]_vars

-----------------------------------------------------------------------------
(* Specification SpecPresence: the same runs over every pattern of missing  *)
(* and present source files (each of the 30 paths holds FileOne or nothing).*)

LoadModelIfPresent == LoadModelFrom({"missing", "one"})

NextPresence ==
    \/ AggStart \/ BeginGroup \/ BeginScenario \/ LoadModelIfPresent
    \/ FinishScenario \/ FinishGroup \/ AggFinish \/ ReportMain

SpecPresence == InitRun /\ [][NextPresence]_vars

-----------------------------------------------------------------------------
(* Specification SpecRoundTrip: a feature set as the tool obtains it (the   *)
(* loaded and normalized lines of a source text of at most MaxText          *)
(* characters) is written with write_list and read back with load_features. *)

RtAlphabet == {"A", "-", " ", "\n"}

InitRoundTrip ==
    /\ rt_text \in SeqUpTo(RtAlphabet, MaxText)
    /\ rt_lower \in BOOLEAN
    /\ rt_strip \in BOOLEAN
    /\ rt_set = {} /\ rt_file = <<>> /\ rt_back = <<>>
    /\ rt_pc = "source"
    /\ IsectIdle /\ NormIdle /\ RunIdle /\ SiteIdle

\* set(normalize_items(load_features(txt), ...)) as in main
RtCollect ==
    /\ rt_pc = "source"
    /\ rt_set' = ToSet(normalize_items(
                     load_features([exists |-> TRUE, text |-> rt_text]).value,
                     rt_lower, rt_strip))
    /\ rt_pc' = "set"
    /\ UNCHANGED <<rt_text, rt_lower, rt_strip, rt_file, rt_back>>
    /\ UNCHANGED <<isectVars, normVars, runVars, siteVars>>

\* write_list(path, items)
RtWrite ==
    /\ rt_pc = "set"
    /\ rt_file' = write_list(rt_set)
    /\ rt_pc' = "written"
    /\ UNCHANGED <<rt_text, rt_lower, rt_strip, rt_set, rt_back>>
    /\ UNCHANGED <<isectVars, normVars, runVars, siteVars>>

\* load_features(path) on the file just written
RtReload ==
    /\ rt_pc = "written"
    /\ rt_back' = load_features([exists |-> TRUE, text |-> rt_file]).value
    /\ rt_pc' = "reloaded"
    /\ UNCHANGED <<rt_text, rt_lower, rt_strip, rt_set, rt_file>>
    /\ UNCHANGED <<isectVars, normVars, runVars, siteVars>>

NextRoundTrip == RtCollect \/ RtWrite \/ RtReload

SpecRoundTrip == InitRoundTrip /\ [][NextRoundTrip]_vars

-----------------------------------------------------------------------------
(* Specification SpecSite: the page built by build_html in a browser: the   *)
(* static markup, the page script, tab clicks and reloads, from any         *)
(* content of localStorage. Indices are from 0, as in the script.           *)

\* groupPanels.length
NumGroups == Len(GROUPS)

\* sPanels.length, the same in every group
NumScenarios == Len(SCENARIOS)

GroupIdx == 0..(NumGroups - 1)
ScenIdx == 0..(NumScenarios - 1)

\* the markup: class "group-panel active" exactly when gi == 0
StaticGroupPanels == {g \in GroupIdx : g = 0}

\* the markup: class "scenario-panel active" exactly when gi == 0 and si == 0
StaticScenPanels == [g \in GroupIdx |-> {s \in ScenIdx : g = 0 /\ s = 0}]

\* String(index)
Str(n) ==
    LET d == <<"0", "1", "2", "3", "4", "5", "6", "7", "8", "9">>
    IN  IF n < 0 THEN <<"-", d[(-n) + 1]>> ELSE <<d[n + 1]>>

Digits == {"0", "1", "2", "3", "4", "5", "6", "7", "8", "9"}

DigitValue(c) == CHOOSE n \in 0..9 : Str(n) = <<c>>

\* the value of the longest prefix of digits of s, after the digits acc
RECURSIVE DigitsValue(_, _)
DigitsValue(s, acc) ==
    IF s = <<>> \/ Head(s) \notin Digits THEN acc
    ELSE DigitsValue(Tail(s), 10 * acc + DigitValue(Head(s)))

\* parseInt(s, 10): [nan, value]
ParseInt(s) ==
    LET t == LStrip(s)
        neg == t # <<>> /\ Head(t) = "-"
        u == IF t # <<>> /\ Head(t) \in {"-", "+"} THEN Tail(t) ELSE t
    IN  IF u = <<>> \/ Head(u) \notin Digits THEN [nan |-> TRUE, value |-> 0]
        ELSE [nan |-> FALSE,
              value |-> IF neg THEN 0 - DigitsValue(u, 0) ELSE DigitsValue(u, 0)]

\* localStorage.getItem(key) || '0'
GetItemOrZero(store, key) ==
    IF key \in DOMAIN store /\ store[key] # <<>> THEN store[key] ELSE <<"0">>

\* localStorage.setItem(key, value)
SetItem(store, key, value) ==
    [q \in (DOMAIN store) \cup {key} |-> IF q = key THEN value ELSE store[q]]

Min(a, b) == IF a < b THEN a ELSE b
Max(a, b) == IF a > b THEN a ELSE b

GroupKey == "activeGroupIndex"

\* a slip: one key for the scenario of every group
ScenarioKeyShared(g) == "activeScenarioIndex_group_"

\* `activeScenarioIndex_group_${index}`
ScenarioKey(g) == "activeScenarioIndex_group_" \o (IF g = 0 THEN "0" ELSE "1")

\* gSafe: Number.isFinite(savedGroup) ? Math.max(0, Math.min(savedGroup, n - 1)) : 0
SafeGroup(saved, n) ==
    IF saved.nan THEN 0 ELSE Max(0, Min(saved.value, n - 1))

\* a slip: the stored scenario index is used as it is
SafeScenarioUnclamped(saved, n) ==
    IF saved.nan THEN 0 ELSE saved.value

\* safe: Number.isFinite(saved) ? Math.max(0, Math.min(saved, n - 1)) : 0
SafeScenario(saved, n) ==
    IF saved.nan THEN 0 ELSE Max(0, Min(saved.value, n - 1))

\* the document and the storage as one value
Page == [gl |-> group_links, gp |-> group_panels,
         sl |-> scen_links, sp |-> scen_panels, ls |-> storage]

\* activateScenarioIn(groupPanel, index), groupPanel being panel g
activateScenarioIn(st, g, index) ==
    [st EXCEPT !.sl[g] = {i \in ScenIdx : i = index},
               !.sp[g] = {i \in ScenIdx : i = index},
               !.ls = SetItem(st.ls, ScenarioKey(g), Str(index))]

\* activateGroup(index); with no panel of that index the function throws
\* after storing the index
activateGroup(st, index) ==
    LET st1 == [st EXCEPT !.gl = {i \in GroupIdx : i = index},
                          !.gp = {i \in GroupIdx : i = index},
                          !.ls = SetItem(st.ls, GroupKey, Str(index))]
        saved == ParseInt(GetItemOrZero(st1.ls, ScenarioKey(index)))
    IN  IF index \notin GroupIdx THEN st1
        ELSE activateScenarioIn(st1, index, SafeScenario(saved, NumScenarios))

\* the values localStorage may hold under a key when the page is first opened
StoredValues ==
    {<<>>, <<"0">>, <<"1">>, <<"2">>, <<"7">>, <<"-", "1">>, <<"x">>, <<" ", "1", "x">>}

StorageKeys == {GroupKey} \cup {ScenarioKey(g) : g \in GroupIdx}

InitSite ==
    /\ loaded = FALSE
    /\ group_links = {} /\ scen_links = [g \in GroupIdx |-> {}]
    /\ group_panels = StaticGroupPanels
    /\ scen_panels = StaticScenPanels
    /\ \E K \in SUBSET StorageKeys : storage \in [K -> StoredValues]
    /\ IsectIdle /\ NormIdle /\ RunIdle /\ RtIdle

SetPage(st) ==
    /\ group_links' = st.gl /\ group_panels' = st.gp
    /\ scen_links' = st.sl /\ scen_panels' = st.sp
    /\ storage' = st.ls

\* the page is opened or reloaded: the document is the static markup again,
\* then the script runs to its end ("initial")
LoadPage ==
    /\ LET static == [gl |-> {}, gp |-> StaticGroupPanels,
                      sl |-> [g \in GroupIdx |-> {}], sp |-> StaticScenPanels,
                      ls |-> storage]
           savedGroup == ParseInt(GetItemOrZero(storage, GroupKey))
       IN  SetPage(activateGroup(static, SafeGroup(savedGroup, NumGroups)))
    /\ loaded' = TRUE
    /\ UNCHANGED <<isectVars, normVars, runVars, rtVars>>

\* a click on group tab i
ClickGroup(i) ==
    /\ loaded
    /\ SetPage(activateGroup(Page, i))
    /\ UNCHANGED loaded
    /\ UNCHANGED <<isectVars, normVars, runVars, rtVars>>

\* a click on scenario tab s of group g, whose panel is displayed
ClickScenario(g, s) ==
    /\ loaded
    /\ g \in group_panels
    /\ SetPage(activateScenarioIn(Page, g, s))
    /\ UNCHANGED loaded
    /\ UNCHANGED <<isectVars, normVars, runVars, rtVars>>

ClickGroupTab == \E i \in GroupIdx : ClickGroup(i)

ClickScenarioTab == \E g \in GroupIdx, s \in ScenIdx : ClickScenario(g, s)

NextSite == LoadPage \/ ClickGroupTab \/ ClickScenarioTab

SpecSite == InitSite /\ [][NextSite]_vars

-----------------------------------------------------------------------------
(* Claims about intersect_many.                                             *)

\* the intersection of all the sets, computed without any loop or early exit
AllOf(sets) ==
    {x \in UNION {sets[k] : k \in 1..Len(sets)} :
        \A k \in 1..Len(sets) : x \in sets[k]}

\* the position at which the loop of intersect_many stops early (0: never)
ExitPos(sets) ==
    LET P == {k \in 2..Len(sets) :
                 {x \in sets[1] : \A j \in 2..k : x \in sets[j]} = {}}
    IN  IF P = {} THEN 0 ELSE CHOOSE k \in P : \A j \in P : k <= j

\* C3: for any permutation of the same collection of input sets,
\* intersect_many returns the same set, also when the early exit is taken at
\* a different position.
C3_PermutationInvariant ==
    i_pc = "permuted" => i_res_perm = i_res

C3_Witness ==
    /\ i_pc = "permuted"
    /\ i_perm # i_sets
    /\ ExitPos(i_sets) = 3
    /\ ExitPos(i_perm) = 2

\* C4: intersect_many returns the empty set for an empty collection, the set
\* itself for a collection of one set, and otherwise exactly the elements
\* that belong to every set: the early exit never changes the result.
C4_IntersectAll ==
    i_pc \in {"done", "permuted"} =>
        /\ Len(i_sets) = 0 => i_res = {}
        /\ Len(i_sets) = 1 => i_res = i_sets[1]
        /\ Len(i_sets) >= 2 => i_res = AllOf(i_sets)

C4_Witness ==
    /\ i_pc = "done"
    /\ Len(i_sets) = 3
    /\ ExitPos(i_sets) = 2
    /\ i_sets[3] # {}
    /\ i_res = {}

-----------------------------------------------------------------------------
(* Claims about normalize_items.                                            *)

\* C5: normalizer idempotence: normalizing twice with the same flags gives
\* the same sequence as normalizing once.
C5_Idempotent ==
    n_pc = "twice" => n_twice = n_once

C5_Witness ==
    /\ n_pc = "twice"
    /\ n_lower /\ n_strip
    /\ n_items = << <<"A", " ", "-">> >>
    /\ n_once = << <<"a">> >>

-----------------------------------------------------------------------------
(* Claims about the aggregation run and the two entry points.               *)

\* the lines of an output file, without their terminators
RECURSIVE LinesFrom(_, _)
LinesFrom(text, cur) ==
    IF text = <<>> THEN (IF cur = <<>> THEN <<>> ELSE <<cur>>)
    ELSE IF Head(text) = "\n" THEN <<cur>> \o LinesFrom(Tail(text), <<>>)
         ELSE LinesFrom(Tail(text), Append(cur, Head(text)))

LinesOf(text) == LinesFrom(text, <<>>)

\* every line of the text is ended by a line terminator
AllLinesEnded(text) == text = <<>> \/ text[Len(text)] = "\n"

StrictlyAscending(lines) ==
    \A j \in 1..(Len(lines) - 1) : StrLess(lines[j], lines[j + 1])

\* the normalized feature set of one model's source file
NormalizedSet(src) ==
    ToSet(normalize_items(load_features(SourceFile(src)).value,
                          normalize_case, strip_punct))

AllOutputPaths ==
    {ScenarioPath(GROUPS[g], SCENARIOS[s]) : g \in 1..Len(GROUPS), s \in 1..Len(SCENARIOS)}
    \cup {AcrossPath(GROUPS[g]) : g \in 1..Len(GROUPS)}

\* C1: once a scenario pass has written common_<scenario-folder>.txt, the
\* file holds exactly the names that are in the normalized feature set of
\* every one of the 5 models, one per line, each once, in ascending order.
C1_ScenarioFile ==
    (tool = "aggregate" /\ pc = "scenario" /\ si > 1) =>
        LET path == ScenarioPath(GROUPS[gi], SCENARIOS[si - 1])
        IN  /\ path \in DOMAIN outfiles
            /\ Len(read_files) = Len(MODELS)
            /\ AllLinesEnded(outfiles[path])
            /\ StrictlyAscending(LinesOf(outfiles[path]))
            /\ ToSet(LinesOf(outfiles[path])) =
                   {x \in NormalizedSet(read_files[1]) :
                       \A k \in 1..Len(MODELS) : x \in NormalizedSet(read_files[k])}

C1_Witness ==
    /\ tool = "aggregate" /\ pc = "scenario" /\ si = 2 /\ gi = 2
    /\ normalize_case /\ strip_punct
    /\ read_files = <<"one", "two", "two", "one", "two">>
    /\ outfiles[ScenarioPath(GROUPS[2], SCENARIOS[1])] = <<"b", "\n", "c", "\n">>

\* C2: once a group pass has written common_across_all_scenarios.txt, the
\* file holds exactly the names present in all 3 scenario-level common sets
\* of the group, and those 3 sets are still the ones written to the
\* per-scenario files.
C2_AcrossFile ==
    (tool = "aggregate" /\ pc = "group" /\ gi > 1) =>
        LET g == GROUPS[gi - 1]
        IN  /\ AcrossPath(g) \in DOMAIN outfiles
            /\ Len(per_scenario_common) = Len(SCENARIOS)
            /\ \A j \in 1..Len(SCENARIOS) :
                 /\ per_scenario_common[j].key = SCENARIOS[j]
                 /\ ScenarioPath(g, SCENARIOS[j]) \in DOMAIN outfiles
                 /\ ToSet(LinesOf(outfiles[ScenarioPath(g, SCENARIOS[j])]))
                        = per_scenario_common[j].value
            /\ ToSet(LinesOf(outfiles[AcrossPath(g)])) =
                   {x \in per_scenario_common[1].value :
                       \A j \in 1..Len(SCENARIOS) : x \in per_scenario_common[j].value}

C2_Witness ==
    /\ tool = "aggregate" /\ pc = "group" /\ gi = 3
    /\ outfiles[ScenarioPath(GROUPS[2], SCENARIOS[1])] = <<"a", "\n", "b", "\n", "c", "\n">>
    /\ outfiles[ScenarioPath(GROUPS[2], SCENARIOS[2])] = <<"b", "\n", "c", "\n">>
    /\ outfiles[ScenarioPath(GROUPS[2], SCENARIOS[3])] = <<"a", "\n", "b", "\n", "c", "\n">>
    /\ outfiles[AcrossPath(GROUPS[2])] = <<"b", "\n", "c", "\n">>

\* C7: when the base directory exists the aggregation run always completes:
\* it is never stuck or aborted, a missing source file contributes an empty
\* set, and at exit the status is 0 and all 8 output files are written.
C7_RunCompletes ==
    (tool = "aggregate" /\ base_exists) =>
        /\ pc # "exited" => ENABLED NextPresence
        /\ pc = "exited" =>
             /\ exit_status = 0 /\ stderr = ""
             /\ DOMAIN outfiles = AllOutputPaths
             /\ loads = Len(GROUPS) * Len(SCENARIOS) * Len(MODELS)
        /\ Len(model_sets) = Len(read_files)
        /\ \A k \in 1..Len(model_sets) :
             read_files[k] = "missing" => model_sets[k] = {}

C7_Witness ==
    /\ tool = "aggregate" /\ base_exists /\ pc = "exited" /\ exit_status = 0
    /\ Cardinality(DOMAIN outfiles) = 8
    /\ outfiles[ScenarioPath(GROUPS[1], SCENARIOS[2])] = <<"B", "\n", "C", "\n">>
    /\ outfiles[AcrossPath(GROUPS[1])] = <<>>
    /\ outfiles[AcrossPath(GROUPS[2])] = <<>>
    /\ Len(missing_models) = Len(MODELS)

\* C8: if the base directory does not exist, either tool terminates with a
\* non-zero status and a message before doing any work: nothing is loaded,
\* nothing is written or created, nothing is printed.
C8_BaseMissing ==
    (tool \in {"aggregate", "report"} /\ ~base_exists) =>
        /\ pc \in {"start", "exited"}
        /\ pc = "start" => ENABLED NextPresence
        /\ pc = "exited" => (exit_status > 0 /\ stderr # "")
        /\ loads = 0 /\ printed = 0
        /\ DOMAIN outfiles = {} /\ outdirs = {} /\ ~site_out

C8_Witness ==
    /\ tool = "aggregate" /\ ~base_exists /\ pc = "exited"
    /\ exit_status = 1 /\ stderr = "Cartella non trovata"

-----------------------------------------------------------------------------
(* Claims about the round trip through an output file.                      *)

\* C6: writing a feature set with write_list and reading the file back with
\* load_features gives, as a set, exactly the original feature set (and no
\* name twice).
C6_RoundTrip ==
    rt_pc = "reloaded" =>
        /\ ToSet(rt_back) = rt_set
        /\ Len(rt_back) = Cardinality(rt_set)

C6_Witness ==
    /\ rt_pc = "reloaded"
    /\ rt_text = <<"A", "\n", "-", "A">>
    /\ rt_set = {<<"A">>, <<"-", "A">>}
    /\ rt_file = <<"-", "A", "\n", "A", "\n">>

-----------------------------------------------------------------------------
(* Claims about the tabs of the rendered page.                              *)

\* a scenario panel is displayed when it and its group panel are active
\* (.tab-panel is display:none, .tab-panel.active is display:block)
VisiblePanels ==
    {v \in GroupIdx \X ScenIdx : v[1] \in group_panels /\ v[2] \in scen_panels[v[1]]}

\* the index a stored value stands for: the first one when nothing usable is
\* stored, else the stored number brought into 0 .. n - 1
Intended(store, key, n) ==
    IF key \notin DOMAIN store THEN 0
    ELSE LET v == ParseInt(store[key])
         IN  IF v.nan \/ v.value < 0 THEN 0
             ELSE IF v.value > n - 1 THEN n - 1 ELSE v.value

OnePanelActive ==
    loaded =>
        /\ Cardinality(group_panels) = 1
        /\ \A g \in group_panels : Cardinality(scen_panels[g]) = 1
        /\ Cardinality(VisiblePanels) = 1

\* a load shows the group the stored value stands for and, in it, the
\* scenario the value stored for that group stands for
LoadShowsStored ==
    LoadPage =>
        LET g == Intended(storage, GroupKey, NumGroups)
        IN  VisiblePanels' = {<<g, Intended(storage, ScenarioKey(g), NumScenarios)>>}

\* C9: once the page script has run, after any clicks and reloads and for any
\* stored values, exactly one group panel is active and exactly one scenario
\* panel inside it, so exactly one panel is visible; a load shows the first
\* group and scenario when nothing is stored and clamps out-of-range values.
C9_OnePanelVisible == []OnePanelActive /\ [][LoadShowsStored]_vars

C9_Witness ==
    /\ loaded
    /\ group_panels = {1} /\ scen_panels[1] = {2} /\ scen_panels[0] = {0}
    /\ GroupKey \in DOMAIN storage /\ storage[GroupKey] = <<"1">>
    /\ ScenarioKey(0) \in DOMAIN storage /\ storage[ScenarioKey(0)] = <<"7">>

\* the scenario panels of group g that a click on its group tab would show
ShownOnSwitch(st, g) == activateGroup(st, g).sp[g]

\* C10: tab state persists, independently per level: a reload shows the same
\* group and scenario as before it; the scenario remembered for a group other
\* than the active one is changed by no step (a scenario click in another
\* group, a group switch, a reload); and the scenario remembered for the
\* active group is the one being viewed, so switching away and back
\* restores it.
C10_TabStatePersists ==
    [][loaded =>
          /\ LoadPage => (group_panels' = group_panels /\ VisiblePanels' = VisiblePanels)
          /\ \A h \in GroupIdx :
               h \notin group_panels' => ShownOnSwitch(Page', h) = ShownOnSwitch(Page, h)
          /\ \A g \in group_panels' : ShownOnSwitch(Page', g) = scen_panels'[g]
      ]_vars

C10_Witness ==
    /\ loaded
    /\ group_panels = {0} /\ scen_panels[0] = {1} /\ scen_panels[1] = {2}
    /\ storage[ScenarioKey(0)] = <<"1">> /\ storage[ScenarioKey(1)] = <<"2">>

=============================================================================
